---- MODULE Spec2Model ----
(***************************************************************************)
(* Model of the live voice session bridge of Travel-assist:                *)
(*   src/services/geminiService.ts  (LiveService, fetchRealFlights,        *)
(*                                   runTextQuery)                         *)
(*   src/unnamed/part_000           (App: toggleVoice, observer callbacks) *)
(*                                                                         *)
(* JavaScript runs the code on one event loop: every action below is one   *)
(* run-to-completion piece of a handler, from one suspension point (await) *)
(* to the next.  The browser (getUserMedia, AudioContext, ScriptProcessor) *)
(* and the remote model (live session events, generateContent responses)   *)
(* are the environment: their answers are drawn from small sets.           *)
(***************************************************************************)
EXTENDS Integers, Sequences, FiniteSets, TLC

\* ---------------------------------------------------------------- bounds
\* connect() invocations in one behaviour; the i-th invocation acquires
\* stream i, opens session i, and its handleOpen builds processor i.
MaxConnects == 2

\* connect() invocations in a behaviour of SpecTool, the specification of the
\* tool calls, and session messages (handleMessage invocations) in it
MaxToolConnects == 1
MaxMessages == 1

\* The audio clock (audioContext.currentTime) advances up to MaxTime.
MaxTime == 2

\* Session messages with tool calls whose handling overlaps, in a behaviour
\* of SpecOverlap.
MaxOverlap == 2

ConnIds == 1..MaxConnects
ReconnectIds == 1..3   \* the three connect() invocations of SpecReconnect
AllConnIds == ConnIds \cup ReconnectIds
MsgIds == 1..MaxMessages
AudioMsgIds == 1..3    \* the messages with audio of SpecPlayback, the
                       \* specification of the playback schedule of three buffers
OverlapMsgIds == 1..MaxOverlap
AllMsgIds == MsgIds \cup AudioMsgIds \cup OverlapMsgIds
NoRef == 0      \* JavaScript null

VARIABLES
    \* --- fields of LiveService (geminiService.ts:155-159)
    sessionPromise,   \* NoRef or the id of the session whose promise is stored
    currentStream,    \* NoRef or the id of the stored MediaStream
    inputSource,      \* NoRef or the id of the stored MediaStreamAudioSourceNode
    processor,        \* NoRef or the id of the stored ScriptProcessorNode
    \* --- browser and remote environment
    audioState,       \* audioContext.state: "suspended" or "running"
    connects,         \* connects[c]: position of the c-th connect() invocation
    tracks,           \* tracks[c]: the tracks of stream c: "none", "live", "stopped"
    sessions,         \* sessions[s]: [phase, resolved] of live session s
    procs,            \* procs[p]: [state, stream] of capture processor p
    \* --- observer (App) and wire
    status,           \* App's status state: the last onStatusChange value
    emits,            \* the number of onStatusChange calls so far, modulo 2
    lastFrame,        \* the last frame written by sendRealtimeInput, or NoFrame
    pendingFrames,    \* frames [proc, sess] waiting in a .then on an unfulfilled promise
    \* --- handleMessage invocations and tool-call traffic
    handlers,         \* handlers[m]: the m-th handleMessage invocation, with the
                      \* onFlightsFound calls and tool responses it made, in order
    pendingResponses, \* tool responses waiting in a .then on an unfulfilled promise
    \* --- playback of the audio of the session messages
    nextStartTime,    \* LiveService.nextStartTime (line 158)
    now,              \* audioContext.currentTime
    played,           \* the source.start calls so far: [msg, start, dur, at]
    \* --- App's display of the flights found in the live session
    shown,            \* App's flights, searchSummary and sources states (part_000:15-17)
    lastFound,        \* <<r>> for the argument r of the latest onFlightsFound call
    \* --- the typed query
    tq,               \* the runTextQuery invocation of App's text form
    fx,               \* a fetchRealFlights invocation with the answers it received
    \* --- history
    closedSessions,   \* sessions that disconnect() took out of sessionPromise
    \* --- history kept by Spec alone, for the claims on the life cycle
    lastOp,           \* "disconnect" when the step just taken was disconnect()
    cancelled,        \* connect() invocations overtaken by a disconnect()
    \* --- history kept by SpecUI alone
    lastConnect,      \* the latest connect(): its id and what was held at its call
    \* --- history kept by SpecPlayback alone
    arrivals          \* arrivals[m]: the audio clock when message m arrived

serviceVars == <<sessionPromise, currentStream, inputSource, processor>>
envVars == <<audioState, connects, tracks, sessions, procs>>
obsVars == <<status, emits>>
wireVars == <<lastFrame, pendingFrames>>
toolVars == <<handlers, pendingResponses>>
histVars == <<closedSessions, lastOp, cancelled, lastConnect>>
audioVars == <<nextStartTime, now, played>>
liveVars == <<serviceVars, envVars, obsVars, wireVars, toolVars, histVars, audioVars>>
uiVars == <<shown, lastFound>>
vars == <<liveVars, tq, fx, uiVars, arrivals>>

\* ------------------------------------------------------------- observer
\* callbacks.onStatusChange(s): App passes setStatus (part_000:33).
onStatusChange(s) ==
    /\ status' = s
    /\ emits' = (emits + 1) % 2

\* A step of the service that calls no onStatusChange.
Quiet == UNCHANGED <<status, emits>>

\* ------------------------------------------------------------------ text
\* A text is a sequence of string pieces; the texts returned by the remote
\* model are sequences of one-character pieces, so that substring() cuts them
\* where the code cuts them.
Min(a, b) == IF a < b THEN a ELSE b

\* String.prototype.substring(0, n)
Substring(t, n) == SubSeq(t, 1, Min(n, Len(t)))

\* Array.prototype.join(', ') of the stops (lines 135, 262)
RECURSIVE Join(_)
Join(xs) ==
    IF Len(xs) = 0 THEN <<>>
    ELSE IF Len(xs) = 1 THEN <<xs[1]>>
    ELSE <<xs[1], ", ">> \o Join(Tail(xs))

Contains(t, piece) == \E i \in 1..Len(t) : t[i] = piece

NoDate == ""    \* date absent from the arguments (falsy)

\* The query built from the arguments of a searchFlights call (lines 135, 262).
SearchQuery(args) ==
    <<"Flights from ", args.origin, " to ", args.destination, " ">>
      \o (IF Len(args.stops) > 0 THEN <<"via ">> \o Join(args.stops) ELSE <<>>)
      \o <<" on ", IF args.date # NoDate THEN args.date ELSE "upcoming dates">>

\* ------------------------------------------------------ fetchRealFlights
\* A generateContent answer of the grounded search (lines 35-46):
\*   [ok |-> FALSE] when the call rejects, else [ok, text, chunks].
\* A grounding chunk is [web, title, uri]; an absent title or uri is "".
SourcesOf(chunks) ==
    LET webs == SelectSeq(chunks, LAMBDA c : c.web) IN
    [i \in 1..Len(webs) |->
        [title |-> IF webs[i].title # "" THEN webs[i].title ELSE "Source",
         uri |-> IF webs[i].uri # "" THEN webs[i].uri ELSE "#"]]

\* The text of the extraction answer is a JSON document, modelled by what
\* JSON.parse makes of it: "empty" (no text at all), "invalid" (a SyntaxError),
\* "null", "object" (a value that is no array) or "array" with its items.
JSONparse(doc) ==
    CASE doc.kind = "invalid" -> [threw |-> TRUE, type |-> "none", items |-> <<>>]
      [] doc.kind = "null" -> [threw |-> FALSE, type |-> "null", items |-> <<>>]
      [] doc.kind = "object" -> [threw |-> FALSE, type |-> "object", items |-> <<>>]
      [] doc.kind = "array" -> [threw |-> FALSE, type |-> "array", items |-> doc.items]

EmptyArray == [type |-> "array", items |-> <<>>]

\* Decimal digits of a small count, for the template string of line 108.
Digits(n) == <<"0", "1", "2", "3", "4", "5", "6", "7", "8", "9">>[n + 1]

\* The number of characters of the search text kept as fallback summary.
FallbackLen == 200

ToolResponse(f, sm, src) == [flights |-> f, summary |-> sm, sources |-> src]
Threw == [threw |-> TRUE, value |-> ToolResponse(EmptyArray, <<>>, <<>>)]
Returned(v) == [threw |-> FALSE, value |-> v]

\* fetchRealFlights without the test of lines 48-50: the extraction call is
\* issued whatever the search text.
FetchAfterSearchNoTextTest(resp) ==
    IF ~resp.ok
      THEN [next |-> "throw", out |-> Threw]
      ELSE [next |-> "extract", out |-> Threw]

\* fetchRealFlights from its start to the answer of the search call (lines
\* 30-50): "throw" (the await rejects), "return" (no text) or "extract" (the
\* second call is issued and awaited).
FetchAfterSearch(resp) ==
    IF ~resp.ok
      THEN [next |-> "throw", out |-> Threw]
    ELSE IF resp.text = <<>>
      THEN [next |-> "return",
            out |-> Returned(ToolResponse(EmptyArray, <<"Could not find flight data.">>, <<>>))]
    ELSE [next |-> "extract", out |-> Threw]

\* fetchRealFlights with the summary chosen by flights.length >= 0.
FetchAfterExtractCountingEmpty(searchData, sources, resp) ==
    IF ~resp.ok THEN Threw
    ELSE
      LET parsed == IF resp.doc.kind = "empty"
                      THEN [threw |-> FALSE, type |-> "array", items |-> <<>>]
                      ELSE JSONparse(resp.doc)
          flights == IF parsed.threw
                       THEN EmptyArray
                       ELSE [type |-> parsed.type, items |-> parsed.items]
      IN IF flights.type = "null"
           THEN Threw
         ELSE IF flights.type = "array"
           THEN Returned(ToolResponse(flights,
                  <<"Found ", Digits(Len(flights.items)),
                    " real flight options from web sources.">>, sources))
         ELSE Returned(ToolResponse(flights,
                  Substring(searchData, FallbackLen) \o <<"...">>, sources))

\* fetchRealFlights from the answer of the extraction call to its end (lines
\* 94-111), with the search text and sources kept from the first stage.
FetchAfterExtract(searchData, sources, resp) ==
    IF ~resp.ok THEN Threw
    ELSE
      LET parsed == IF resp.doc.kind = "empty"
                      THEN [threw |-> FALSE, type |-> "array", items |-> <<>>]
                      ELSE JSONparse(resp.doc)
          flights == IF parsed.threw
                       THEN EmptyArray
                       ELSE [type |-> parsed.type, items |-> parsed.items]
      IN IF flights.type = "null"
           THEN Threw    \* flights.length on null: a TypeError outside the try
         ELSE IF flights.type = "array" /\ Len(flights.items) > 0
           THEN Returned(ToolResponse(flights,
                  <<"Found ", Digits(Len(flights.items)),
                    " real flight options from web sources.">>, sources))
         ELSE Returned(ToolResponse(flights,
                  Substring(searchData, FallbackLen) \o <<"...">>, sources))

\* --------------------------------------------------------------- helpers
NoSession == [phase |-> "none", resolved |-> FALSE]
NoProc == [state |-> "none", stream |-> NoRef]
NoFrame == [proc |-> NoRef, sess |-> NoRef, phase |-> "none"]
NoAnswer == [ok |-> FALSE, text |-> <<>>, chunks |-> <<>>,
             doc |-> [kind |-> "none", items |-> <<>>]]
NoFetch == [pc |-> "idle", query |-> <<>>, searchResp |-> NoAnswer, extractResp |-> NoAnswer,
            extractCalls |-> 0, out |-> Threw]
NoTextQuery == [pc |-> "idle", query |-> <<>>,
                select |-> [ok |-> FALSE, calls |-> <<>>, text |-> <<>>], fetchQuery |-> <<>>, searchData |-> <<>>,
                sources |-> <<>>, failedAt |-> "none", threw |-> FALSE,
                result |-> ToolResponse(EmptyArray, <<>>, <<>>)]
NoHandler == [pc |-> "idle", sess |-> NoRef, held |-> FALSE, audio |-> "none", dur |-> 0,
              calls |-> <<>>, idx |-> 0,
              query |-> <<>>, searchData |-> <<>>, sources |-> <<>>,
              fetched |-> <<>>, outcome |-> <<>>, log |-> <<>>]

\* The promise returned by ai.live.connect is fulfilled once the socket has
\* opened; a .then on it runs its callback only from then on.
Resolved(s) == s # NoRef /\ sessions[s].resolved

\* A handleMessage invocation suspended at an await of fetchRealFlights.
Running(h) == h.pc \in {"search", "extract"}

\* A connect() invocation is in flight from its 'connecting' notification
\* until its session's onopen has fired.
InFlight(c) ==
    \/ connects[c] \in {"resume", "getUserMedia"}
    \/ connects[c] = "done" /\ sessions[c].phase = "opening"

Init ==
    /\ sessionPromise = NoRef
    /\ currentStream = NoRef
    /\ inputSource = NoRef
    /\ processor = NoRef
    /\ audioState \in {"suspended", "running"}
    /\ connects = [c \in AllConnIds |-> "idle"]
    /\ tracks = [c \in AllConnIds |-> "none"]
    /\ sessions = [c \in AllConnIds |-> NoSession]
    /\ procs = [c \in AllConnIds |-> NoProc]
    /\ status = "disconnected"
    /\ emits = 0
    /\ lastFrame = NoFrame
    /\ pendingFrames = {}
    /\ handlers = [m \in AllMsgIds |-> NoHandler]
    /\ shown = ToolResponse(EmptyArray, <<"Ready to plan your trip.">>, <<>>)
    /\ lastFound = <<>>
    /\ arrivals = [m \in AllMsgIds |-> 0]
    /\ pendingResponses = <<>>
    /\ lastOp = "other"
    /\ cancelled = {}
    /\ lastConnect = [id |-> NoRef, held |-> {}]
    /\ tq = NoTextQuery
    /\ nextStartTime = 0
    /\ now = 0
    /\ played = <<>>
    /\ fx = NoFetch
    /\ closedSessions = {}

\* ------------------------------------------------------------ connect()
\* connect(), up to its first await (geminiService.ts:169-178).
ConnectStart(c) ==
    /\ connects[c] = "idle"
    /\ \A d \in AllConnIds : d < c => connects[d] # "idle"
    /\ onStatusChange("connecting")
    /\ connects' = [connects EXCEPT ![c] =
                      IF audioState = "suspended" THEN "resume" ELSE "getUserMedia"]
    /\ UNCHANGED <<serviceVars, audioState, tracks, sessions, procs, wireVars, toolVars,
                   closedSessions>>

connect == \E c \in ConnIds : ConnectStart(c)

\* await this.audioContext.resume() returns (line 175); getUserMedia is
\* called and awaited (line 178).
ConnectResumed(c) ==
    /\ connects[c] = "resume"
    /\ audioState' = "running"
    /\ connects' = [connects EXCEPT ![c] = "getUserMedia"]
    /\ Quiet
    /\ UNCHANGED <<serviceVars, tracks, sessions, procs, wireVars, toolVars, closedSessions>>

\* getUserMedia resolves with stream c; the session is opened and its promise
\* stored (lines 178-199).
ConnectGotStream(c) ==
    /\ connects[c] = "getUserMedia"
    /\ tracks' = [tracks EXCEPT ![c] = "live"]
    /\ currentStream' = c
    /\ sessions' = [sessions EXCEPT ![c] = [phase |-> "opening", resolved |-> FALSE]]
    /\ sessionPromise' = c
    /\ connects' = [connects EXCEPT ![c] = "done"]
    /\ Quiet
    /\ UNCHANGED <<inputSource, processor, audioState, procs, wireVars, toolVars, closedSessions>>

\* A connect() that opens the session although getUserMedia rejected: the
\* catch block taken, then lines 180-199 run all the same.
ConnectMicDeniedProceeds(c) ==
    /\ connects[c] = "getUserMedia"
    /\ onStatusChange("error")
    /\ sessions' = [sessions EXCEPT ![c] = [phase |-> "opening", resolved |-> FALSE]]
    /\ sessionPromise' = c
    /\ connects' = [connects EXCEPT ![c] = "failed"]
    /\ UNCHANGED <<currentStream, inputSource, processor, audioState, tracks, procs,
                   wireVars, toolVars, closedSessions>>

\* getUserMedia rejects: the catch block (lines 201-204).
ConnectMicDenied(c) ==
    /\ connects[c] = "getUserMedia"
    /\ onStatusChange("error")
    /\ connects' = [connects EXCEPT ![c] = "failed"]
    /\ UNCHANGED <<serviceVars, audioState, tracks, sessions, procs, wireVars, toolVars, closedSessions>>

\* --------------------------------------------------------- disconnect()
\* A disconnect() that keeps the session reference: lines 290-298 without the
\* assignment of line 299.
disconnectKeepingSession ==
    /\ IF currentStream # NoRef
         THEN /\ tracks' = [tracks EXCEPT ![currentStream] = "stopped"]
              /\ currentStream' = NoRef
         ELSE UNCHANGED <<tracks, currentStream>>
    /\ procs' = [p \in AllConnIds |->
                   IF p # NoRef /\ (p = inputSource \/ p = processor)
                     THEN [procs[p] EXCEPT !.state = "detached"]
                     ELSE procs[p]]
    /\ onStatusChange("disconnected")
    /\ closedSessions' = closedSessions \cup ({sessionPromise} \ {NoRef})
    /\ UNCHANGED <<sessionPromise, inputSource, processor, audioState, connects,
                   sessions, wireVars, toolVars>>

\* disconnect() (lines 290-300).  It has no await: it runs to completion.
disconnect ==
    /\ IF currentStream # NoRef
         THEN /\ tracks' = [tracks EXCEPT ![currentStream] = "stopped"]
              /\ currentStream' = NoRef
         ELSE UNCHANGED <<tracks, currentStream>>
    /\ procs' = [p \in AllConnIds |->
                   IF p # NoRef /\ (p = inputSource \/ p = processor)
                     THEN [procs[p] EXCEPT !.state = "detached"]
                     ELSE procs[p]]
    /\ onStatusChange("disconnected")
    /\ sessionPromise' = NoRef
    /\ closedSessions' = closedSessions \cup ({sessionPromise} \ {NoRef})
    /\ UNCHANGED <<inputSource, processor, audioState, connects, sessions, wireVars, toolVars>>

\* toggleVoice (part_000:55-61): the microphone button of App.
toggleVoice ==
    IF status = "connected" \/ status = "connecting"
      THEN disconnect
      ELSE connect

\* ------------------------------------------------------- session events
\* handleOpen (lines 207-233), run as the onopen callback of session s.  The
\* SDK fulfils the promise of ai.live.connect right after the callback, so the
\* .then callbacks waiting on it run next: the queued frames are written.
handleOpen(s) ==
    /\ onStatusChange("connected")
    /\ IF currentStream = NoRef
         THEN UNCHANGED <<procs, inputSource, processor>>
         ELSE /\ procs' = [procs EXCEPT ![s] = [state |-> "attached", stream |-> currentStream]]
              /\ inputSource' = s
              /\ processor' = s

\* The .then callbacks of lines 222-224 that waited for session s run: each
\* writes its frame; any of them may be the one written last.
FlushFrames(s) ==
    LET waiting == {f \in pendingFrames : f.sess = s} IN
    /\ IF waiting = {}
         THEN lastFrame' = lastFrame
         ELSE \E f \in waiting :
                lastFrame' = [proc |-> f.proc, sess |-> s, phase |-> "open"]
    /\ pendingFrames' = pendingFrames \ waiting

\* The .then callbacks of lines 272-284 that waited for session s run in the
\* order they were registered: each writes its tool response on s.
FlushResponses(s) ==
    /\ handlers' = [m \in AllMsgIds |->
          [handlers[m] EXCEPT !.log = @ \o
              [i \in 1..Len(SelectSeq(pendingResponses, LAMBDA r : r.sess = s /\ r.id[1] = m)) |->
                  [ev |-> "response",
                   id |-> SelectSeq(pendingResponses, LAMBDA r : r.sess = s /\ r.id[1] = m)[i].id,
                   sess |-> s]]]]
    /\ pendingResponses' = SelectSeq(pendingResponses, LAMBDA r : r.sess # s)

OnOpen(s) ==
    /\ sessions[s].phase = "opening"
    /\ handleOpen(s)
    /\ sessions' = [sessions EXCEPT ![s] = [phase |-> "open", resolved |-> TRUE]]
    /\ FlushFrames(s)
    /\ FlushResponses(s)
    /\ UNCHANGED <<sessionPromise, currentStream, audioState, connects, tracks,
                   closedSessions>>

\* onclose callback (line 193).
OnClose(s) ==
    /\ sessions[s].phase \in {"opening", "open", "errored"}
    /\ onStatusChange("disconnected")
    /\ sessions' = [sessions EXCEPT ![s].phase = "closed"]
    /\ UNCHANGED <<serviceVars, audioState, connects, tracks, procs, wireVars, toolVars, closedSessions>>

\* onerror callback (lines 194-197).
OnError(s) ==
    /\ sessions[s].phase \in {"opening", "open"}
    /\ onStatusChange("error")
    /\ sessions' = [sessions EXCEPT ![s].phase = "errored"]
    /\ UNCHANGED <<serviceVars, audioState, connects, tracks, procs, wireVars, toolVars, closedSessions>>

\* The promise returned by ai.live.connect (line 180) rejects.  connect() does
\* not await it and attaches no rejection handler, so the catch block of lines
\* 201-204 does not run: no statement of the service is executed.
OpenRejected(s) ==
    /\ sessions[s].phase = "opening"
    /\ sessions' = [sessions EXCEPT ![s].phase = "rejected"]
    /\ Quiet
    /\ UNCHANGED <<serviceVars, audioState, connects, tracks, procs, wireVars, toolVars,
                   closedSessions>>

\* ------------------------------------------------------ capture pipeline
\* processor.onaudioprocess (lines 217-226): fired by the browser for a
\* processor that is still connected; the frame goes to whatever session
\* promise the service holds at that moment.
AudioProcess(p) ==
    /\ procs[p].state = "attached"
    /\ IF sessionPromise = NoRef
         THEN UNCHANGED wireVars
         ELSE IF Resolved(sessionPromise)
           THEN /\ lastFrame' = [proc |-> p, sess |-> sessionPromise,
                                 phase |-> sessions[sessionPromise].phase]
                /\ UNCHANGED pendingFrames
           ELSE /\ pendingFrames' = pendingFrames \cup {[proc |-> p, sess |-> sessionPromise]}
                /\ UNCHANGED lastFrame
    /\ Quiet
    /\ UNCHANGED <<serviceVars, envVars, toolVars, closedSessions>>

\* -------------------------------------------------------- handleMessage
\* The id the server gives the i-th function call of message m.
CallId(m, i) == <<m, i>>

\* A loop without the test of the name: the first call at or after position
\* from, or 0.
NextCallAnyName(calls, from) ==
    IF from > Len(calls) THEN 0 ELSE from

\* The first searchFlights call at or after position from, or 0: the for loop
\* of lines 259-260 skips every other name.
NextSearch(calls, from) ==
    LET hits == {i \in from..Len(calls) : calls[i].name = "searchFlights"} IN
    IF hits = {} THEN 0 ELSE CHOOSE i \in hits : \A j \in hits : i <= j

\* The loop of lines 259-267 from position from up to its next await: the
\* query is built and fetchRealFlights is called, or the loop ends.
RunCalls(h, from) ==
    LET i == NextSearch(h.calls, from) IN
    IF i = 0
      THEN [h EXCEPT !.pc = "done", !.idx = 0]
      ELSE [h EXCEPT !.pc = "search", !.idx = i,
                     !.query = SearchQuery(h.calls[i].args),
                     !.fetched[i] = @ + 1]

\* onmessage callback of session s: handleMessage (lines 235-288) for a
\* message without audio data, up to its first await.  The handler notes
\* whether s was the session the service held when the message arrived.
OnMessage(s, m, calls) ==
    /\ sessions[s].phase = "open"
    /\ handlers[m].pc = "idle"
    /\ \A k \in AllMsgIds : k < m => handlers[k].pc # "idle"
    /\ handlers' = [handlers EXCEPT ![m] =
          RunCalls([NoHandler EXCEPT !.sess = s, !.held = (sessionPromise = s),
                                     !.calls = calls,
                                     !.fetched = [i \in 1..Len(calls) |-> 0],
                                     !.outcome = [i \in 1..Len(calls) |-> "none"]], 1)]
    /\ Quiet
    /\ UNCHANGED <<serviceVars, envVars, wireVars, pendingResponses, closedSessions>>

\* Lines 269-284 for the call at h.idx of message m, whose retrieval returned
\* a result: onFlightsFound, then the tool response through the session
\* promise the service holds now.  Delivered(m, h) is the handler afterwards,
\* Queued(m, h) the tool responses left waiting on an unfulfilled promise.
Found(m, h) == [ev |-> "found", id |-> CallId(m, h.idx), sess |-> h.sess]
Response(m, h) == [ev |-> "response", id |-> CallId(m, h.idx), sess |-> sessionPromise]

\* A handler that writes the tool response before it calls onFlightsFound.
DeliveredAnswerFirst(m, h) ==
    IF sessionPromise # NoRef /\ Resolved(sessionPromise)
      THEN [h EXCEPT !.log = @ \o <<Response(m, h), Found(m, h)>>]
      ELSE [h EXCEPT !.log = Append(@, Found(m, h))]

Delivered(m, h) ==
    IF sessionPromise # NoRef /\ Resolved(sessionPromise)
      THEN [h EXCEPT !.log = @ \o <<Found(m, h), Response(m, h)>>]
      ELSE [h EXCEPT !.log = Append(@, Found(m, h))]

Queued(m, h) ==
    IF sessionPromise # NoRef /\ ~Resolved(sessionPromise)
      THEN Append(pendingResponses, Response(m, h))
      ELSE pendingResponses

\* The end of the retrieval of the call at h.idx.
Outcome(h, st) == [h EXCEPT !.outcome[h.idx] = st, !.query = <<>>,
                            !.searchData = <<>>, !.sources = <<>>]

\* fetchRealFlights rejects: the await of line 267 throws out of handleMessage.
Rejects(m, h) ==
    /\ handlers' = [handlers EXCEPT ![m] = [Outcome(h, "threw") EXCEPT !.pc = "threw"]]
    /\ UNCHANGED pendingResponses

\* fetchRealFlights returns: lines 269-284, then the loop goes on.
Returns(m, h) ==
    /\ handlers' = [handlers EXCEPT ![m] =
                      RunCalls(Outcome(Delivered(m, h), "returned"), h.idx + 1)]
    /\ pendingResponses' = Queued(m, h)

\* The grounded search call of fetchRealFlights answers (lines 35-50).
FetchSearchDone(m, resp) ==
    LET h == handlers[m]
        r == FetchAfterSearch(resp)
    IN /\ h.pc = "search"
       /\ CASE r.next = "throw" -> Rejects(m, h)
            [] r.next = "return" -> Returns(m, h)
            [] r.next = "extract" ->
                 /\ handlers' = [handlers EXCEPT ![m] =
                       [h EXCEPT !.pc = "extract", !.searchData = resp.text,
                                 !.sources = SourcesOf(resp.chunks)]]
                 /\ UNCHANGED pendingResponses
       /\ Quiet
       /\ UNCHANGED <<serviceVars, envVars, wireVars, closedSessions>>

\* The extraction call of fetchRealFlights answers (lines 54-111).
FetchExtractDone(m, resp) ==
    LET h == handlers[m]
        r == FetchAfterExtract(h.searchData, h.sources, resp)
    IN /\ h.pc = "extract"
       /\ IF r.threw THEN Rejects(m, h) ELSE Returns(m, h)
       /\ Quiet
       /\ UNCHANGED <<serviceVars, envVars, wireVars, closedSessions>>

\* ------------------------------------------------- App's onFlightsFound
\* A callback that adds the flights and sources of the notification to those
\* on display.
onFlightsFoundAdding(response) ==
    shown' = [flights |-> [type |-> "array",
                           items |-> shown.flights.items \o response.flights.items],
              summary |-> response.summary,
              sources |-> shown.sources \o response.sources]

\* The onFlightsFound callback App constructs the service with
\* (part_000:40-45): setFlights, setSearchSummary, setSources.
\* fetchRealFlights always returns a sources array (lines 44-46), which
\* response.sources || [] keeps.
onFlightsFound(response) ==
    shown' = [flights |-> response.flights,
              summary |-> response.summary,
              sources |-> response.sources]

\* Line 269 in the service App constructed: realData goes to App's callback.
Notify(realData) ==
    /\ lastFound' = <<realData>>
    /\ onFlightsFound(realData)

\* FetchSearchDone and FetchExtractDone with App's display: the step that
\* returns realData runs App's callback at line 269.
AppFetchSearchDone(m, resp) ==
    LET r == FetchAfterSearch(resp) IN
    /\ FetchSearchDone(m, resp)
    /\ IF r.next = "return" THEN Notify(r.out.value) ELSE UNCHANGED uiVars

AppFetchExtractDone(m, resp) ==
    LET r == FetchAfterExtract(handlers[m].searchData, handlers[m].sources, resp) IN
    /\ FetchExtractDone(m, resp)
    /\ IF r.threw THEN UNCHANGED uiVars ELSE Notify(r.value)

\* ---------------------------------------------------------- runTextQuery
\* The result of the catch block of runTextQuery (lines 145-148).
ErrorResult == ToolResponse(EmptyArray, <<"Sorry, I encountered an error.">>, <<>>)
HelpText == <<"I can help you plan flights. Try asking 'Find flights from London to NY'.">>

\* return fetchRealFlights(...) without the await: the rejection is the
\* caller's.
ReturnWithoutAwait(r) == r

\* return await fetchRealFlights(...) inside the try block (line 136): a
\* rejection of the awaited call is caught and answered by the catch block.
AwaitInTry(r) == IF r.threw THEN Returned(ErrorResult) ELSE r

\* runTextQuery is called with the typed query (part_000:74) and awaits the
\* tool-selection call (lines 115-130).
TqStart(query) ==
    /\ tq.pc \in {"idle", "returned", "threw"}
    /\ tq' = [NoTextQuery EXCEPT !.pc = "select", !.query = query]

\* The invocation ends: it returns a value or rejects.
TqEnd(t, r) == [t EXCEPT !.pc = IF r.threw THEN "threw" ELSE "returned",
                         !.threw = r.threw, !.result = r.value,
                         !.searchData = <<>>, !.sources = <<>>]

\* A test of the first function call that ignores its name.
SelectsAnyCall(resp) == Len(resp.calls) > 0

\* fc && fc.name === 'searchFlights' (lines 132-133), fc the first function
\* call of the answer.
SelectsSearchFlights(resp) ==
    Len(resp.calls) > 0 /\ resp.calls[1].name = "searchFlights"

\* The tool-selection call answers (lines 123-148).
TqSelectDone(resp) ==
    LET t == [tq EXCEPT !.select = resp] IN
    /\ tq.pc = "select"
    /\ tq' =
         IF ~resp.ok
           THEN TqEnd([t EXCEPT !.failedAt = "select"], Returned(ErrorResult))
         ELSE IF SelectsSearchFlights(resp)
           THEN [t EXCEPT !.pc = "search", !.fetchQuery = SearchQuery(resp.calls[1].args)]
         ELSE TqEnd(t, Returned(ToolResponse(EmptyArray,
                      IF resp.text # <<>> THEN resp.text ELSE HelpText, <<>>)))

\* The grounded search call of fetchRealFlights answers (lines 35-50, 136).
TqSearchDone(resp) ==
    LET r == FetchAfterSearch(resp)
        t == IF resp.ok THEN tq ELSE [tq EXCEPT !.failedAt = "search"]
    IN /\ tq.pc = "search"
       /\ tq' = IF r.next = "extract"
                  THEN [t EXCEPT !.pc = "extract", !.searchData = resp.text,
                                 !.sources = SourcesOf(resp.chunks)]
                  ELSE TqEnd(t, AwaitInTry(r.out))

\* The extraction call of fetchRealFlights answers (lines 54-111, 136).
TqExtractDone(resp) ==
    LET t == IF resp.ok THEN tq ELSE [tq EXCEPT !.failedAt = "extract"]
    IN /\ tq.pc = "extract"
       /\ tq' = TqEnd(t, AwaitInTry(FetchAfterExtract(tq.searchData, tq.sources, resp)))

\* ------------------------------------------- handleMessage: audio output
\* base64ToUint8Array(audioData) (line 244), of utils/audioUtils: the bytes of
\* the payload, or an exception for a payload that is no base64 text.
base64ToUint8Array(payload) == [threw |-> payload = "malformed"]

\* decodeAudioData(bytes, audioContext) (line 244), of utils/audioUtils: a
\* promise of an AudioBuffer of the duration the bytes carry, rejected for
\* bytes it cannot make a buffer of.
decodeAudioData(payload, dur) == [threw |-> payload = "undecodable", duration |-> dur]

Max(a, b) == IF a > b THEN a ELSE b

\* An audio section without its try/catch: the exception leaves handleMessage.
AudioFailureEscapes(h) == [h EXCEPT !.pc = "threw"]

\* The catch block of the audio section (lines 252-254), then the tool
\* section up to its first await (lines 258-267).
AudioFailureCaught(h) == RunCalls(h, 1)

\* Line 243 has run; line 244 evaluates base64ToUint8Array and, with its
\* bytes, calls decodeAudioData and awaits it.
StartDecode(h) ==
    IF base64ToUint8Array(h.audio).threw
      THEN AudioFailureCaught(h)
      ELSE [h EXCEPT !.pc = "decode"]

\* onmessage callback of session s for a message that carries audio data:
\* handleMessage (lines 235-244) up to its first await.
OnAudioMessage(s, m, msg) ==
    LET h == [NoHandler EXCEPT !.sess = s, !.held = (sessionPromise = s),
                               !.audio = msg.audio, !.dur = msg.dur,
                               !.calls = msg.calls,
                               !.fetched = [i \in 1..Len(msg.calls) |-> 0],
                               !.outcome = [i \in 1..Len(msg.calls) |-> "none"]]
    IN /\ sessions[s].phase = "open"
       /\ handlers[m].pc = "idle"
       /\ \A k \in AllMsgIds : k < m => handlers[k].pc # "idle"
       /\ IF audioState = "suspended"
            THEN /\ handlers' = [handlers EXCEPT ![m] = [h EXCEPT !.pc = "resumeAudio"]]
                 /\ UNCHANGED nextStartTime
            ELSE /\ handlers' = [handlers EXCEPT ![m] = StartDecode(h)]
                 /\ nextStartTime' = Max(nextStartTime, now)
       /\ Quiet
       /\ UNCHANGED <<serviceVars, envVars, wireVars, pendingResponses, closedSessions,
                      now, played>>

\* await this.audioContext.resume() of line 241 returns: lines 243-244.
AudioResumed(m) ==
    /\ handlers[m].pc = "resumeAudio"
    /\ audioState' = "running"
    /\ nextStartTime' = Max(nextStartTime, now)
    /\ handlers' = [handlers EXCEPT ![m] = StartDecode(handlers[m])]
    /\ Quiet
    /\ UNCHANGED <<serviceVars, connects, tracks, sessions, procs, wireVars,
                   pendingResponses, closedSessions, now, played>>

\* A handleMessage whose catch block of the audio section reports the failure
\* as a status: onStatusChange('error') added to lines 252-254.
DecodeDoneReportingError(m) ==
    LET h == handlers[m]
        buffer == decodeAudioData(h.audio, h.dur)
    IN /\ h.pc = "decode"
       /\ IF buffer.threw
            THEN /\ handlers' = [handlers EXCEPT ![m] = AudioFailureCaught(h)]
                 /\ onStatusChange("error")
                 /\ UNCHANGED <<nextStartTime, played>>
            ELSE /\ handlers' = [handlers EXCEPT ![m] =
                        RunCalls([h EXCEPT !.log = Append(@,
                                    [ev |-> "audio", id |-> CallId(m, 0), sess |-> h.sess])], 1)]
                 /\ played' = Append(played, [msg |-> m, start |-> nextStartTime,
                                              dur |-> buffer.duration, at |-> now])
                 /\ nextStartTime' = nextStartTime + buffer.duration
                 /\ Quiet
       /\ UNCHANGED <<serviceVars, envVars, wireVars, pendingResponses, closedSessions, now>>

\* The await of decodeAudioData settles (line 244): lines 245-251 for a
\* buffer, the catch block for a rejection; then the tool section.
DecodeDone(m) ==
    LET h == handlers[m]
        buffer == decodeAudioData(h.audio, h.dur)
    IN /\ h.pc = "decode"
       /\ IF buffer.threw
            THEN /\ handlers' = [handlers EXCEPT ![m] = AudioFailureCaught(h)]
                 /\ UNCHANGED <<nextStartTime, played>>
            ELSE /\ handlers' = [handlers EXCEPT ![m] =
                        RunCalls([h EXCEPT !.log = Append(@,
                                    [ev |-> "audio", id |-> CallId(m, 0), sess |-> h.sess])], 1)]
                 /\ played' = Append(played, [msg |-> m, start |-> nextStartTime,
                                              dur |-> buffer.duration, at |-> now])
                 /\ nextStartTime' = nextStartTime + buffer.duration
       /\ Quiet
       /\ UNCHANGED <<serviceVars, envVars, wireVars, pendingResponses, closedSessions, now>>

\* The browser suspends the audio context (an interruption, a policy).
AudioSuspended ==
    /\ audioState = "running"
    /\ audioState' = "suspended"
    /\ Quiet
    /\ UNCHANGED <<serviceVars, connects, tracks, sessions, procs, wireVars, toolVars,
                   closedSessions, nextStartTime, now, played>>

\* The audio clock advances; the clock of a suspended context stands still.
Tick ==
    /\ audioState = "running"
    /\ now < MaxTime
    /\ now' = now + 1
    /\ Quiet
    /\ UNCHANGED <<serviceVars, envVars, wireVars, toolVars, closedSessions,
                   nextStartTime, played>>

\* ------------------------------------------------------ fetchRealFlights
\* fetchRealFlights(apiKey, query) is called and awaits the grounded search
\* call (lines 30-41).
FxCall(query) ==
    /\ fx.pc \in {"idle", "returned", "threw"}
    /\ fx' = [NoFetch EXCEPT !.pc = "search", !.query = query]

\* The grounded search call answers (lines 35-50).
FxSearchDone(resp) ==
    LET r == FetchAfterSearch(resp) IN
    /\ fx.pc = "search"
    /\ fx' = [fx EXCEPT !.searchResp = resp,
                        !.pc = CASE r.next = "extract" -> "extract"
                                 [] r.next = "throw" -> "threw"
                                 [] r.next = "return" -> "returned",
                        !.extractCalls = IF r.next = "extract" THEN 1 ELSE 0,
                        !.out = r.out]

\* The extraction call answers (lines 54-111).
FxExtractDone(resp) ==
    LET r == FetchAfterExtract(fx.searchResp.text, SourcesOf(fx.searchResp.chunks), resp) IN
    /\ fx.pc = "extract"
    /\ fx' = [fx EXCEPT !.extractResp = resp,
                        !.pc = IF r.threw THEN "threw" ELSE "returned",
                        !.out = r]

\* ---------------------------------------------------------------- inputs
ArgsLHR == [origin |-> "LHR", destination |-> "SIN", stops |-> <<>>, date |-> "2024-05-01"]
ArgsJFK == [origin |-> "JFK", destination |-> "CDG", stops |-> <<"DXB", "DOH">>, date |-> NoDate]
SearchCall(a) == [name |-> "searchFlights", args |-> a]
OtherCall == [name |-> "bookHotel", args |-> ArgsLHR]

\* The tool calls a live session message may carry.
LiveMessages ==
    { <<OtherCall, SearchCall(ArgsJFK)>>,
      <<SearchCall(ArgsLHR), SearchCall(ArgsJFK)>> }

SearchText == <<"S", "Q", " ", "9", "0", "0">>
Chunk == [web |-> TRUE, title |-> "", uri |-> "https://example.com"]
Flight1 == [id |-> "f1", totalPrice |-> "900", currency |-> "USD",
            legs |-> <<[carrier |-> "Singapore Airlines"]>>]

Rejected == [ok |-> FALSE, text |-> <<>>, chunks |-> <<>>, doc |-> [kind |-> "empty", items |-> <<>>]]
SearchAnswer(t, cs) == [ok |-> TRUE, text |-> t, chunks |-> cs,
                        doc |-> [kind |-> "empty", items |-> <<>>]]
ExtractAnswer(k, fs) == [ok |-> TRUE, text |-> <<>>, chunks |-> <<>>,
                         doc |-> [kind |-> k, items |-> fs]]

\* Answers of the two remote calls of a retrieval during a live session.
LiveSearchResponses == {Rejected, SearchAnswer(<<>>, <<Chunk>>), SearchAnswer(SearchText, <<Chunk>>)}
LiveExtractResponses == {Rejected, ExtractAnswer("invalid", <<>>), ExtractAnswer("array", <<Flight1>>)}

\* The typed queries, and the answers of the three remote calls of a text query.
TextQueries == {<<"Cheapest flights to Bali in June">>, <<"Flights from LHR to SIN">>}

DeclineText == <<"Could you specify your departure city?">>
SelectAnswer(cs, t) == [ok |-> TRUE, calls |-> cs, text |-> t]
SelectResponses ==
    { [ok |-> FALSE, calls |-> <<>>, text |-> <<>>],
      SelectAnswer(<<>>, DeclineText),
      SelectAnswer(<<>>, <<>>),
      SelectAnswer(<<OtherCall>>, DeclineText),
      SelectAnswer(<<OtherCall, SearchCall(ArgsLHR)>>, <<>>),
      SelectAnswer(<<SearchCall(ArgsLHR)>>, <<>>),
      SelectAnswer(<<SearchCall(ArgsJFK), OtherCall>>, DeclineText) }

LongText == [i \in 1..(FallbackLen + 5) |-> IF i <= FallbackLen THEN "x" ELSE "y"]
PlainChunk == [web |-> FALSE, title |-> "", uri |-> ""]
TitledChunk == [web |-> TRUE, title |-> "Fares", uri |-> ""]
Flight2 == [id |-> "f2", totalPrice |-> "450", currency |-> "EUR",
            legs |-> <<[carrier |-> "Emirates"]>>]

QuerySearchResponses ==
    { Rejected,
      SearchAnswer(<<>>, <<Chunk>>),
      SearchAnswer(SearchText, <<>>),
      SearchAnswer(SearchText, <<Chunk, PlainChunk, TitledChunk>>),
      SearchAnswer(LongText, <<Chunk>>) }

QueryExtractResponses ==
    { Rejected,
      ExtractAnswer("empty", <<>>),
      ExtractAnswer("invalid", <<>>),
      ExtractAnswer("null", <<>>),
      ExtractAnswer("object", <<>>),
      ExtractAnswer("array", <<>>),
      ExtractAnswer("array", <<Flight1>>),
      ExtractAnswer("array", <<Flight1, Flight2>>) }

\* The queries and search answers of a fetchRealFlights call: search texts
\* shorter than, exactly as long as and longer than the fallback summary.
FetchQueries == {SearchQuery(ArgsLHR), SearchQuery(ArgsJFK)}
ExactText == [i \in 1..FallbackLen |-> "z"]
FetchSearchResponses ==
    QuerySearchResponses \cup
    { SearchAnswer(<<>>, <<>>),
      SearchAnswer(<<>>, <<Chunk, TitledChunk>>),
      SearchAnswer(ExactText, <<TitledChunk>>) }

\* The session messages that carry audio: a payload that decodes, one that is
\* no base64 text and one whose bytes do not decode, with or without a tool
\* call in the same message.
AudioMessages ==
    { [audio |-> a, dur |-> IF a = "valid" THEN 1 ELSE 0, calls |-> cs] :
        a \in {"valid", "malformed", "undecodable"},
        cs \in {<<>>, <<SearchCall(ArgsLHR)>>} }

\* The session messages of the playback schedule: audio that decodes, of two
\* durations.
PlaybackMessages ==
    { [audio |-> "valid", dur |-> d, calls |-> <<>>] : d \in {1, 2} }

\* ------------------------------------------------------- specifications
\* The answers of the browser and of the live session to connect().
Answers ==
    \/ \E c \in ConnIds : ConnectResumed(c)
    \/ \E c \in ConnIds : ConnectGotStream(c)
    \/ \E c \in ConnIds : ConnectMicDenied(c)
    \/ \E s \in ConnIds : OnOpen(s)
    \/ \E s \in ConnIds : OnClose(s)
    \/ \E s \in ConnIds : OnError(s)

\* The tool calls of the live session and their retrievals.
ToolCalls ==
    \/ \E s \in ConnIds, m \in MsgIds, calls \in LiveMessages : OnMessage(s, m, calls)
    \/ \E m \in MsgIds, resp \in LiveSearchResponses : FetchSearchDone(m, resp)
    \/ \E m \in MsgIds, resp \in LiveExtractResponses : FetchExtractDone(m, resp)

\* Spec: the life cycle with the capture pipeline.  The two public methods are
\* called at any time; Spec records which connect() invocations a disconnect()
\* overtook and whether the step just taken was a disconnect().
Next ==
    \/ /\ disconnect
       /\ lastOp' = "disconnect"
       /\ cancelled' = cancelled \cup {c \in ConnIds : InFlight(c)}
       /\ UNCHANGED <<lastConnect, tq, fx, uiVars, arrivals, audioVars>>
    \/ /\ \/ connect
          \/ Answers
          \/ \E p \in ConnIds : AudioProcess(p)
       /\ lastOp' = "other"
       /\ UNCHANGED <<cancelled, lastConnect, tq, fx, uiVars, arrivals, audioVars>>

Spec == Init /\ [][Next]_vars

\* SpecTool: the tool calls of the messages of at most MaxToolConnects sessions.
NextTool ==
    /\ \/ \E c \in 1..MaxToolConnects : ConnectStart(c)
       \/ disconnect
       \/ Answers
       \/ ToolCalls
    /\ UNCHANGED <<lastOp, cancelled, lastConnect, tq, fx, uiVars, arrivals, audioVars>>

SpecTool == Init /\ [][NextTool]_vars

\* SpecVoice: the tool calls of a voice session that App drives through the
\* microphone button, across MaxConnects connect() invocations.
NextVoice ==
    /\ \/ toggleVoice
       \/ Answers
       \/ ToolCalls
    /\ UNCHANGED <<lastOp, cancelled, lastConnect, tq, fx, uiVars, arrivals, audioVars>>

SpecVoice == Init /\ [][NextVoice]_vars

\* The streams, processors and sessions of earlier connect() invocations that
\* the service or the browser still holds.
Held == {d \in ConnIds : \/ tracks[d] = "live"
                         \/ procs[d].state = "attached"
                         \/ sessionPromise = d}

\* SpecUI: the service as App drives it, through the microphone button alone.
\* SpecUI records what was still held when the button called connect().
NextUI ==
    /\ \/ /\ toggleVoice
          /\ lastConnect' =
                IF status = "connected" \/ status = "connecting"
                  THEN lastConnect
                  ELSE [id |-> CHOOSE c \in ConnIds : connects'[c] # connects[c],
                        held |-> Held]
       \/ /\ \/ Answers
             \/ \E p \in ConnIds : AudioProcess(p)
          /\ UNCHANGED lastConnect
    /\ UNCHANGED <<lastOp, cancelled, tq, fx, uiVars, arrivals, audioVars>>

SpecUI == Init /\ [][NextUI]_vars

\* SpecOpen: the life cycle in which every remote operation a connect() waits
\* for (resume, getUserMedia, the opening of the session) eventually succeeds
\* or fails.  The opening of a session ends with onopen, onerror, onclose or
\* the rejection of its promise.
Settle(c) ==
    /\ \/ ConnectResumed(c)
       \/ ConnectGotStream(c)
       \/ ConnectMicDenied(c)
       \/ /\ sessions[c].phase = "opening"
          /\ (OnOpen(c) \/ OnError(c) \/ OnClose(c) \/ OpenRejected(c))
    /\ UNCHANGED <<lastOp, cancelled, lastConnect, tq, fx, uiVars, arrivals, audioVars>>

NextOpen ==
    /\ \/ connect
       \/ disconnect
       \/ Answers
       \/ \E s \in ConnIds : OpenRejected(s)
    /\ UNCHANGED <<lastOp, cancelled, lastConnect, tq, fx, uiVars, arrivals, audioVars>>

SpecOpen == Init /\ [][NextOpen]_vars /\ \A c \in ConnIds : WF_vars(Settle(c))

\* SpecAudio: the messages with audio of at most MaxToolConnects sessions that
\* open and stay open.
NextAudio ==
    /\ \/ /\ \/ \E c \in 1..MaxToolConnects : ConnectStart(c)
             \/ \E c \in ConnIds : ConnectResumed(c)
             \/ \E c \in ConnIds : ConnectGotStream(c)
             \/ \E s \in ConnIds : OnOpen(s)
             \/ \E m \in MsgIds, resp \in LiveSearchResponses : FetchSearchDone(m, resp)
             \/ \E m \in MsgIds, resp \in LiveExtractResponses : FetchExtractDone(m, resp)
          /\ UNCHANGED audioVars
       \/ \E s \in ConnIds, m \in MsgIds, msg \in AudioMessages : OnAudioMessage(s, m, msg)
       \/ \E m \in MsgIds : AudioResumed(m)
       \/ \E m \in MsgIds : DecodeDone(m)
       \/ AudioSuspended
       \/ Tick
    /\ UNCHANGED <<lastOp, cancelled, lastConnect, tq, fx, uiVars, arrivals>>

SpecAudio == Init /\ [][NextAudio]_vars

\* SpecPlayback: at most three messages with audio on one session
\* that opens and stays open, while the audio clock advances.
NextPlayback ==
    /\ \/ /\ \/ ConnectStart(1)
             \/ ConnectResumed(1)
             \/ ConnectGotStream(1)
             \/ OnOpen(1)
          /\ UNCHANGED audioVars
       \/ \E m \in AudioMsgIds, msg \in PlaybackMessages : OnAudioMessage(1, m, msg)
       \/ \E m \in AudioMsgIds : AudioResumed(m)
       \/ \E m \in AudioMsgIds : DecodeDone(m)
       \/ AudioSuspended
       \/ Tick
    /\ arrivals' = [m \in AllMsgIds |->
                      IF handlers[m].pc = "idle" /\ handlers'[m].pc # "idle"
                        THEN now ELSE arrivals[m]]
    /\ UNCHANGED <<lastOp, cancelled, lastConnect, tq, fx, uiVars>>

SpecPlayback == Init /\ [][NextPlayback]_vars

\* SpecOverlap: at most MaxOverlap messages with tool calls on one session
\* that opens and stays open, with App's display of the flights found; the
\* handling of a message may start while the retrievals of earlier messages
\* are under way.
NextOverlap ==
    /\ \/ /\ \/ ConnectStart(1)
             \/ ConnectResumed(1)
             \/ ConnectGotStream(1)
             \/ OnOpen(1)
             \/ \E m \in OverlapMsgIds, calls \in LiveMessages : OnMessage(1, m, calls)
          /\ UNCHANGED uiVars
       \/ \E m \in OverlapMsgIds, resp \in LiveSearchResponses : AppFetchSearchDone(m, resp)
       \/ \E m \in OverlapMsgIds, resp \in LiveExtractResponses : AppFetchExtractDone(m, resp)
    /\ UNCHANGED <<lastOp, cancelled, lastConnect, tq, fx, audioVars, arrivals>>

SpecOverlap == Init /\ [][NextOverlap]_vars

\* SpecAnswered: SpecOverlap in which every remote call of a retrieval is
\* eventually answered, with a result or with a failure.
RetrievalAnswered(m) ==
    /\ \/ \E resp \in LiveSearchResponses : AppFetchSearchDone(m, resp)
       \/ \E resp \in LiveExtractResponses : AppFetchExtractDone(m, resp)
    /\ UNCHANGED <<lastOp, cancelled, lastConnect, tq, fx, audioVars, arrivals>>

SpecAnswered ==
    /\ Init
    /\ [][NextOverlap]_vars
    /\ \A m \in OverlapMsgIds : WF_vars(RetrievalAnswered(m))

\* SpecReconnect: the tool calls of one message while connect() is called up
\* to three times; every session opens and stays open.
NextReconnect ==
    /\ \/ \E c \in ReconnectIds : ConnectStart(c)
       \/ \E c \in ReconnectIds : ConnectResumed(c)
       \/ \E c \in ReconnectIds : ConnectGotStream(c)
       \/ \E s \in ReconnectIds : OnOpen(s)
       \/ \E s \in ReconnectIds, calls \in LiveMessages : OnMessage(s, 1, calls)
       \/ \E resp \in LiveSearchResponses : FetchSearchDone(1, resp)
       \/ \E resp \in LiveExtractResponses : FetchExtractDone(1, resp)
    /\ UNCHANGED <<lastOp, cancelled, lastConnect, tq, fx, uiVars, arrivals, audioVars>>

SpecReconnect == Init /\ [][NextReconnect]_vars

\* SpecSession: the messages with audio and tool calls of at most
\* MaxToolConnects sessions, with every outcome of connect() and every session
\* event.
NextSession ==
    /\ \/ /\ \/ \E c \in 1..MaxToolConnects : ConnectStart(c)
             \/ Answers
             \/ \E m \in MsgIds, resp \in LiveSearchResponses : FetchSearchDone(m, resp)
             \/ \E m \in MsgIds, resp \in LiveExtractResponses : FetchExtractDone(m, resp)
          /\ UNCHANGED audioVars
       \/ \E s \in ConnIds, m \in MsgIds, msg \in AudioMessages : OnAudioMessage(s, m, msg)
       \/ \E m \in MsgIds : AudioResumed(m)
       \/ \E m \in MsgIds : DecodeDone(m)
       \/ AudioSuspended
    /\ UNCHANGED <<lastOp, cancelled, lastConnect, tq, fx, uiVars, arrivals>>

SpecSession == Init /\ [][NextSession]_vars

\* SpecFetch: fetchRealFlights called with a query, one call at a time.
NextFetch ==
    /\ \/ \E query \in FetchQueries : FxCall(query)
       \/ \E resp \in FetchSearchResponses : FxSearchDone(resp)
       \/ \E resp \in QueryExtractResponses : FxExtractDone(resp)
    /\ UNCHANGED <<liveVars, tq, uiVars, arrivals>>

SpecFetch == Init /\ [][NextFetch]_vars

\* SpecQuery: the typed queries of App's text form, one runTextQuery at a time.
NextQuery ==
    /\ \/ \E query \in TextQueries : TqStart(query)
       \/ \E resp \in SelectResponses : TqSelectDone(resp)
       \/ \E resp \in QuerySearchResponses : TqSearchDone(resp)
       \/ \E resp \in QueryExtractResponses : TqExtractDone(resp)
    /\ UNCHANGED <<liveVars, fx, uiVars, arrivals>>

SpecQuery == Init /\ [][NextQuery]_vars

\* ================================================================ claims

\* C1: a disconnect() called while a connect() is in flight leaves nothing of
\* that connect() behind: its session never reports 'connected', its
\* microphone stream is not left acquired, and its session is not left in
\* sessionPromise.
C1_DisconnectWhileConnecting ==
    \A c \in cancelled :
        /\ ~sessions[c].resolved
        /\ tracks[c] # "live"
        /\ sessionPromise # c

\* C4: at most one session handle is active: once the session reference of a
\* connect() is installed, no microphone stream that was acquired when that
\* connect() was called is still acquired, and no capture processor that was
\* attached then is still attached.
C4_AtMostOneHandle ==
    (sessionPromise # NoRef /\ sessionPromise = lastConnect.id) =>
        \A d \in lastConnect.held :
            /\ tracks[d] # "live"
            /\ procs[d].state # "attached"

\* C8: the second of two disconnect() calls in a row calls no onStatusChange.
C8_SecondDisconnectSilent ==
    [][(lastOp = "disconnect" /\ lastOp' = "disconnect") => emits' = emits]_vars

\* C9: a disconnect() before any connect() changes no field of the service and
\* calls no onStatusChange.
NeverConnected == \A c \in ConnIds : connects[c] = "idle"

C9_DisconnectBeforeConnectNoOp ==
    [][(NeverConnected /\ lastOp' = "disconnect")
          => (emits' = emits /\ status' = status /\ UNCHANGED serviceVars)]_vars

\* C10: once a session whose capture pipeline was started has reported onError,
\* the status is 'error' until the next notification, its capture processor is
\* detached, and no audio frame is written after the error.
C10_ErrorTearsDownCapture ==
    /\ \A s \in ConnIds :
          (sessions[s].phase = "errored" /\ procs[s].state # "none")
              => procs[s].state = "detached"
    /\ lastFrame.phase # "errored"

\* ------------------------------------------------ claims on tool calls
\* The tool responses written for the i-th call of message m.
ResponsesTo(m, i) ==
    SelectSeq(handlers[m].log, LAMBDA e : e.ev = "response" /\ e.id = CallId(m, i))

FoundFor(m, i) ==
    SelectSeq(handlers[m].log, LAMBDA e : e.ev = "found" /\ e.id = CallId(m, i))

\* C2: a tool response is written only on the session on which its tool call
\* arrived: when the call arrived on the session the service held and
\* disconnect() has closed that session since, the response is never written
\* on the session of another connect().
C2_ResponseOnOwnSession ==
    \A m \in MsgIds :
        \A k \in 1..Len(handlers[m].log) :
            (/\ handlers[m].log[k].ev = "response"
             /\ handlers[m].held
             /\ handlers[m].sess \in closedSessions)
                => handlers[m].log[k].sess = handlers[m].sess

\* C3: when the retrieval of a tool call returns after disconnect() has taken
\* the call's session out of the service, the result is still handed to
\* onFlightsFound and no tool response is written, or left waiting to be
\* written, on that session.
C3_StrayRetrieval ==
    [][\A m \in MsgIds :
          (/\ Running(handlers[m])
           /\ handlers[m].sess \in closedSessions
           /\ handlers'[m].outcome[handlers[m].idx] = "returned")
          => /\ \E k \in 1..Len(handlers'[m].log) :
                    handlers'[m].log[k] = Found(m, handlers[m])
             /\ \A k \in 1..Len(handlers'[m].log) :
                    ~(/\ handlers'[m].log[k].ev = "response"
                      /\ handlers'[m].log[k].id = CallId(m, handlers[m].idx)
                      /\ handlers'[m].log[k].sess = handlers[m].sess)
             /\ \A k \in 1..Len(pendingResponses') :
                    ~(/\ pendingResponses'[k].id = CallId(m, handlers[m].idx)
                      /\ pendingResponses'[k].sess = handlers[m].sess)]_vars

\* C3 witness: a retrieval has returned after disconnect() closed its session:
\* its result was handed to onFlightsFound and no tool response was written.
C3_Witness ==
    \E m \in MsgIds : \E i \in 1..Len(handlers[m].calls) :
        /\ handlers[m].outcome[i] = "returned"
        /\ handlers[m].sess \in closedSessions
        /\ Len(FoundFor(m, i)) = 1
        /\ Len(ResponsesTo(m, i)) = 0

\* C5: no failure of a remote call of a retrieval leaves fetchRealFlights as an
\* exception into handleMessage: every retrieval of a tool call ends with a
\* result.
C5_RetrievalNeverThrows ==
    \A m \in MsgIds :
        /\ handlers[m].pc # "threw"
        /\ \A i \in 1..Len(handlers[m].outcome) : handlers[m].outcome[i] # "threw"

\* C7: for each searchFlights call of a message of the session the service
\* still holds, the retrieval is invoked once, with a query that contains the
\* origin and the destination of the call, and once the message is handled
\* exactly one tool response carrying the id of the call has been written.
C7_OneRetrievalOneResponse ==
    \A m \in MsgIds :
        LET h == handlers[m] IN
        /\ Running(h) =>
              /\ Contains(h.query, h.calls[h.idx].args.origin)
              /\ Contains(h.query, h.calls[h.idx].args.destination)
        /\ (h.pc \in {"done", "threw"} /\ sessionPromise = h.sess) =>
              \A i \in 1..Len(h.calls) :
                  h.calls[i].name = "searchFlights" =>
                      /\ h.fetched[i] = 1
                      /\ Len(ResponsesTo(m, i)) = 1

\* ------------------------------------------------ claims on text queries
\* C6: runTextQuery never rejects, and whenever one of its remote calls (tool
\* selection, grounded search, extraction) failed it returns exactly
\* {flights: [], summary: "Sorry, I encountered an error.", sources: []}.
C6_TextQueryNeverThrows ==
    /\ tq.pc # "threw"
    /\ ~tq.threw
    /\ (tq.pc = "returned" /\ tq.failedAt # "none") =>
          tq.result = [flights |-> [type |-> "array", items |-> <<>>],
                       summary |-> <<"Sorry, I encountered an error.">>,
                       sources |-> <<>>]

\* C6 witness: a text query has returned after its extraction call failed.
C6_Witness ==
    /\ tq.pc = "returned"
    /\ tq.failedAt = "extract"
    /\ tq.searchData = <<>>
    /\ tq.result.summary = <<"Sorry, I encountered an error.">>

\* ------------------------------------------- claims on the status sequence
\* C11: when the promise of the session-open call rejects after the microphone
\* was acquired the status becomes 'error'; and once connect() has emitted
\* 'connecting' the status eventually leaves 'connecting', every remote
\* operation eventually succeeding or failing.
C11_ConnectingSettles ==
    /\ [][\A s \in ConnIds :
            (sessions[s].phase = "opening" /\ sessions'[s].phase = "rejected")
               => status' = "error"]_vars
    /\ (status = "connecting") ~> (status # "connecting")

\* C12: 'error' and 'disconnected' are terminal for a session: once such a
\* notification was emitted for session s (by its onerror or onclose, or by a
\* disconnect() that dropped s) and connect() was not called again, no later
\* event of s emits a status of a different value.
C12_TerminalStatus ==
    [][\A s \in ConnIds :
          (/\ status \in {"error", "disconnected"}
           /\ (sessions[s].phase \in {"errored", "closed"} \/ s \in closedSessions)
           /\ \A c \in ConnIds : c > s => connects[c] = "idle"
           /\ sessions'[s] # sessions[s])
          => status' = status]_vars

\* C13: when getUserMedia rejects during connect(), that connect() emits
\* 'error' (after its 'connecting', which is still the status then unless a
\* disconnect() or another connect() came between), acquires no stream and
\* opens no session:
\* the session reference is left as it was, no session of that invocation
\* exists and none of its callbacks is registered.
C13_MicDeniedOpensNoSession ==
    [][\A c \in ConnIds :
          /\ (connects[c] = "getUserMedia" /\ connects'[c] = "failed")
                => /\ (c \notin cancelled /\ \A d \in ConnIds \ {c} : connects[d] = "idle")
                        => status = "connecting"
                   /\ status' = "error"
                   /\ emits' # emits
                   /\ sessionPromise' = sessionPromise
                   /\ currentStream' = currentStream
          /\ connects'[c] = "failed"
                => /\ sessions'[c] = [phase |-> "none", resolved |-> FALSE]
                   /\ sessionPromise' # c
                   /\ tracks'[c] = "none"]_vars

\* C13 witness: the first connect() has failed on getUserMedia: the status is
\* 'error' and the session reference is unset.
C13_Witness ==
    /\ connects[1] = "failed"
    /\ connects[2] = "idle"
    /\ status = "error"
    /\ sessionPromise = NoRef
    /\ sessions[1].phase = "none"

\* ------------------------------------------------ claims on the resources
\* C14: disconnect() releases the microphone unconditionally and idempotently:
\* called when every connect() has returned, it leaves no track of an acquired
\* stream live and leaves the stream reference and the session reference
\* null; a disconnect() that follows a disconnect() stops no track.
C14_DisconnectReleasesMicrophone ==
    [][(/\ lastOp' = "disconnect"
        /\ \E c \in ConnIds : connects[c] = "done"
        /\ \A c \in ConnIds : connects[c] \notin {"resume", "getUserMedia"})
       => /\ \A c \in ConnIds : tracks'[c] # "live"
          /\ currentStream' = NoRef
          /\ sessionPromise' = NoRef
          /\ lastOp = "disconnect" => tracks' = tracks]_vars

\* C15: every onopen sets the status to 'connected', notifies the observer and
\* starts the capture pipeline on the open session; so whenever the last
\* notified status is 'connected', a capture processor is attached to a live
\* microphone stream and the session reference is set.
C15_ConnectedMeansCapturing ==
    status = "connected"
       => /\ sessionPromise # NoRef
          /\ \E p \in ConnIds : /\ procs[p].state = "attached"
                                /\ procs[p].stream # NoRef
                                /\ tracks[procs[p].stream] = "live"

\* --------------------------------------------- claims on fetchRealFlights
\* C16: when the grounded search answers with empty text, fetchRealFlights
\* returns exactly {flights: [], summary: "Could not find flight data.",
\* sources: []}, whatever the citations of the answer, and issues no
\* extraction call.
C16_EmptySearchText ==
    (fx.searchResp.ok /\ fx.searchResp.text = <<>>)
       => /\ fx.pc = "returned"
          /\ ~fx.out.threw
          /\ fx.out.value = [flights |-> [type |-> "array", items |-> <<>>],
                             summary |-> <<"Could not find flight data.">>,
                             sources |-> <<>>]
          /\ fx.extractCalls = 0

\* C16 witness: a search answer with citations and no text was returned from.
C16_Witness ==
    /\ fx.searchResp.ok
    /\ fx.searchResp.text = <<>>
    /\ Len(fx.searchResp.chunks) > 0
    /\ fx.pc = "returned"

\* C17: when the extraction answers with text that is no itinerary array
\* (unparseable, or JSON that parses to null or to an object),
\* fetchRealFlights returns flights = [] and a non-empty summary made of the
\* first 200 characters of the search text followed by "...", and throws
\* nothing to its caller.
C17_BadExtractionFallsBack ==
    (fx.extractResp.ok /\ fx.extractResp.doc.kind \in {"invalid", "null", "object"})
       => /\ fx.pc = "returned"
          /\ ~fx.out.threw
          /\ fx.out.value.flights = [type |-> "array", items |-> <<>>]
          /\ fx.out.value.summary # <<>>
          /\ fx.out.value.summary =
                SubSeq(fx.searchResp.text, 1, Min(FallbackLen, Len(fx.searchResp.text)))
                   \o <<"...">>

\* The number of itineraries of the array the extraction answered with.
ParsedCount ==
    IF fx.extractResp.ok /\ fx.extractResp.doc.kind = "array"
      THEN Len(fx.extractResp.doc.items)
      ELSE 0

C19_DeclinedToolCall ==
    (/\ tq.pc # "select"
     /\ tq.select.ok
     /\ (Len(tq.select.calls) = 0 \/ tq.select.calls[1].name # "searchFlights"))
       => /\ tq.pc = "returned"
          /\ tq.fetchQuery = <<>>
          /\ tq.result =
               [flights |-> [type |-> "array", items |-> <<>>],
                summary |-> IF tq.select.text # <<>>
                              THEN tq.select.text
                              ELSE <<"I can help you plan flights. Try asking 'Find flights from London to NY'.">>,
                sources |-> <<>>]

\* C19 witness: the answer carried a call of another tool first and the text
\* "Could you specify your departure city?", which was returned as summary.
C19_Witness ==
    /\ tq.pc = "returned"
    /\ Len(tq.select.calls) > 0
    /\ tq.select.calls[1].name # "searchFlights"
    /\ tq.result.summary = <<"Could you specify your departure city?">>

\* ------------------------------------------- claims on the audio of messages
\* C20: a malformed audio payload is caught within its message: no step of
\* that handleMessage invocation calls onAudioData or schedules a buffer or
\* emits a status notification, and when the audio section ends the tool
\* section runs: the retrieval of a searchFlights call of the same message is
\* started.
C20_MalformedAudioDropped ==
    [][\A m \in MsgIds :
          LET h == handlers[m]
              g == handlers'[m]
          IN (/\ g.audio \in {"malformed", "undecodable"}
              /\ <<g.pc, g.idx>> # <<h.pc, h.idx>>)
             => /\ status' = status
                /\ emits' = emits
                /\ played' = played
                /\ \A k \in 1..Len(g.log) : g.log[k].ev # "audio"
                /\ (h.pc \in {"idle", "resumeAudio", "decode"}
                      /\ g.pc \notin {"resumeAudio", "decode"})
                     => IF \E i \in 1..Len(g.calls) : g.calls[i].name = "searchFlights"
                          THEN /\ g.pc = "search"
                               /\ g.calls[g.idx].name = "searchFlights"
                               /\ g.fetched[g.idx] = 1
                          ELSE g.pc = "done"]_vars

\* C20 witness: a message whose audio payload was no base64 text carried a
\* searchFlights call; nothing was played, the status is still 'connected'
\* and the call was retrieved and answered.
C20_Witness ==
    \E m \in MsgIds :
        /\ handlers[m].audio = "malformed"
        /\ handlers[m].pc = "done"
        /\ Len(handlers[m].calls) = 1
        /\ handlers[m].outcome[1] = "returned"
        /\ Len(ResponsesTo(m, 1)) = 1
        /\ played = <<>>
        /\ status = "connected"

Scheduled(m) == \E i \in 1..Len(played) : played[i].msg = m

\* The start time handed to the device for the buffer of message m, and the
\* device clock at that call.
StartOf(m) == (CHOOSE e \in {played[i] : i \in 1..Len(played)} : e.msg = m).start
StartedAt(m) == (CHOOSE e \in {played[i] : i \in 1..Len(played)} : e.msg = m).at

\* The time at which the buffer of message m finishes playing: the device
\* plays a buffer whose start time has passed at once.
PlaysUntil(m) == Max(StartOf(m), StartedAt(m)) + handlers[m].dur

\* C22: when the buffers of three messages, of durations d1, d2, d3, have been
\* scheduled and the three messages all arrived before the first buffer
\* finished playing, then start2 = start1 + d1 and start3 = start1 + d1 + d2,
\* whatever the arrival times and the order in which the decodes completed.
C22_BackToBack ==
    (/\ \A m \in 1..3 : Scheduled(m)
     /\ \A m \in 1..3 : arrivals[m] < PlaysUntil(1))
       => /\ StartOf(2) = StartOf(1) + handlers[1].dur
          /\ StartOf(3) = StartOf(1) + handlers[1].dur + handlers[2].dur

\* C23: no start time handed to the audio device is earlier than the device
\* clock at the time of the start call: every buffer is scheduled at
\* max(cursor, now) with now read at the moment of scheduling, also when the
\* decode or the resume of its message took time.
C23_NoStartInThePast ==
    \A i \in 1..Len(played) : played[i].start >= played[i].at

\* ------------------------------------------------- claims on the tool calls
\* C24: the flights, the summary and the sources on display are exactly those
\* of the latest onFlightsFound notification, whatever the order in which the
\* retrievals of overlapping messages complete: each notification replaces
\* what was displayed, nothing is merged or accumulated.
C24_LastNotificationDisplayed ==
    lastFound # <<>> => shown = lastFound[1]

\* C24 witness: two messages have each made a notification, the latest one
\* carries no flights, and a further retrieval of one of the two messages is
\* still under way.
C24_Witness ==
    /\ lastFound # <<>>
    /\ lastFound[1].flights.items = <<>>
    /\ \E m, k \in OverlapMsgIds :
          /\ m # k
          /\ \E i \in 1..Len(handlers[m].log) : handlers[m].log[i].ev = "found"
          /\ \E i \in 1..Len(handlers[k].log) : handlers[k].log[i].ev = "found"
          /\ handlers[k].pc \in {"search", "extract"}

\* C25: the result of the retrieval of a searchFlights call is handed to
\* onFlightsFound before the tool response of that call is written on a
\* session, and no tool response is written, or left waiting to be written,
\* for a call whose result was not handed to onFlightsFound first.
C25_SurfacedBeforeAnswered ==
    /\ \A m \in MsgIds :
          \A k \in 1..Len(handlers[m].log) :
              handlers[m].log[k].ev = "response"
                 => \E j \in 1..(k - 1) :
                       /\ handlers[m].log[j].ev = "found"
                       /\ handlers[m].log[j].id = handlers[m].log[k].id
    /\ \A k \in 1..Len(pendingResponses) :
          LET id == pendingResponses[k].id IN
          \E j \in 1..Len(handlers[id[1]].log) :
              /\ handlers[id[1]].log[j].ev = "found"
              /\ handlers[id[1]].log[j].id = id

\* C25 witness: both searchFlights calls of a message have been surfaced and
\* answered.
C25_Witness ==
    \E m \in MsgIds :
        /\ Len(handlers[m].calls) = 2
        /\ \A i \in 1..2 : Len(FoundFor(m, i)) = 1 /\ Len(ResponsesTo(m, i)) = 1

\* C26: every searchFlights call received on a session that stays active is
\* eventually answered with a tool response carrying its id, provided every
\* remote call of a retrieval eventually returns or fails; this includes the
\* later calls of a message whose earlier retrieval failed.
C26_EveryCallAnswered ==
    \A m \in OverlapMsgIds : \A i \in 1..2 :
        (/\ Len(handlers[m].calls) >= i
         /\ handlers[m].calls[i].name = "searchFlights")
           ~> (Len(ResponsesTo(m, i)) >= 1)

\* ------------------------------------------- claims on the released resources
\* C27: whenever the last notified status is 'disconnected' or 'error', the
\* microphone is released and capture is stopped: no track of an acquired
\* stream is live and no capture processor is attached, also after an onclose
\* or an onerror of the session without any disconnect().
C27_IdleMeansReleased ==
    status \in {"disconnected", "error"}
       => /\ \A c \in ConnIds : tracks[c] # "live"
          /\ \A p \in ConnIds : procs[p].state # "attached"

\* ------------------------------------------------ claims on the order of handling
\* C28: audio buffers are scheduled in the order in which their messages
\* arrived: of two messages with audio, the one delivered first gets the
\* earlier start time, in whatever order the resume and decode steps of the
\* two handleMessage invocations complete.
C28_ScheduledInArrivalOrder ==
    \A a, b \in AudioMsgIds :
        (a < b /\ Scheduled(a) /\ Scheduled(b)) => StartOf(a) < StartOf(b)

\* C29: the function calls of one message are handled one after another in
\* list order: the retrieval of a later searchFlights call has started only if
\* the retrieval of every earlier one has returned and its onFlightsFound
\* notification was made, and the notifications and tool responses of the
\* message occur in the order of its calls; the handling of different
\* messages overlaps.
C29_CallsInListOrder ==
    \A m \in OverlapMsgIds :
        LET h == handlers[m] IN
        /\ \A i, j \in 1..Len(h.calls) :
              (/\ i < j
               /\ h.calls[i].name = "searchFlights"
               /\ h.calls[j].name = "searchFlights"
               /\ h.fetched[j] > 0)
                 => /\ h.outcome[i] = "returned"
                    /\ Len(FoundFor(m, i)) = 1
        /\ \A k, l \in 1..Len(h.log) :
              (k < l /\ h.log[k].ev = h.log[l].ev) => h.log[k].id[2] < h.log[l].id[2]

\* C30: a function call whose name is not 'searchFlights' is ignored: no
\* retrieval is started for it, no onFlightsFound notification is made and no
\* tool response is written or left waiting for it; and it does not keep the
\* searchFlights calls of its message from being handled: the retrieval of the
\* first searchFlights call of a message is started when the message arrives,
\* whatever calls precede it.
C30_OtherCallsIgnored ==
    \A m \in MsgIds :
        LET h == handlers[m] IN
        /\ \A i \in 1..Len(h.calls) :
              h.calls[i].name # "searchFlights"
                 => /\ h.fetched[i] = 0
                    /\ Len(FoundFor(m, i)) = 0
                    /\ Len(ResponsesTo(m, i)) = 0
                    /\ \A k \in 1..Len(pendingResponses) :
                          pendingResponses[k].id # CallId(m, i)
        /\ \A j \in 1..Len(h.calls) :
              (/\ h.calls[j].name = "searchFlights"
               /\ \A i \in 1..(j - 1) : h.calls[i].name # "searchFlights")
                 => h.fetched[j] = 1

\* C30 witness: a message whose first call is not a searchFlights call has
\* been handled, and the tool response of its searchFlights call was written.
C30_Witness ==
    \E m \in MsgIds :
        /\ handlers[m].pc = "done"
        /\ Len(handlers[m].calls) = 2
        /\ handlers[m].calls[1].name # "searchFlights"
        /\ Len(FoundFor(m, 2)) = 1
        /\ Len(ResponsesTo(m, 2)) = 1

====
